---- MODULE Spec2Model ----
(***************************************************************************)
(* Model of cognite/_utils.py: the first-fit-decreasing allocator          *)
(* first_fit with the Bin accumulator it uses (specification Spec), and    *)
(* the request helpers with their retry loop (specification SpecReq).      *)
(*                                                                         *)
(* An item is a pair <<id, count>>: id is the position of the object in    *)
(* the caller's list (object identity), count is what get_count returns    *)
(* for it.  A bin is the sequence Bin.entries.                             *)
(***************************************************************************)
EXTENDS Integers, Sequences, FiniteSets, TLC

\* Longest caller list drawn by Init.
MaxLen == 4
\* Largest count get_count returns for a drawn item (the smallest is -1).
MaxCount == 2
\* Largest max_size drawn by Init (the smallest is 0).
MaxCap == 3
\* Number of consecutive calls of first_fit on the same arguments.
MaxCalls == 2

\* Largest config.get_number_of_retries() drawn by InitReq (the smallest is 0).
MaxRetries == 2
\* Longest list, largest count and largest max_size drawn by InitFair.
MaxFairLen == 2
MaxFairCount == 1
MaxFairCap == 1

VARIABLES
    input,        \* the caller's list_items argument
    max_size,     \* the max_size argument
    list_items,   \* the local working list (sorted copy)
    list_bins,    \* the local list of bins, each the entries of a Bin
    i,            \* position of `item` of the outer for loop in list_items
    b,            \* position of `bin` of the inner for loop in list_bins
    alloc_flag,   \* the local alloc_flag
    pc,           \* control point inside first_fit
    result,       \* the value returned by the call
    call,         \* ordinal of the current call
    prev_result,  \* the value returned by the previous call
    method,           \* which request helper is called
    session,          \* whether the caller supplied a session (post_request)
    retries,          \* config.get_number_of_retries()
    number_of_tries,  \* the loop variable of the retry loop
    res,              \* the local res: the last response received
    sent,             \* what each send so far produced, in order
    rpc,              \* control point inside the request helper
    outcome           \* what the helper returned or raised

ffvars == <<input, max_size, list_items, list_bins, i, b, alloc_flag, pc,
            result, call, prev_result>>

reqvars == <<method, session, retries, number_of_tries, res, sent, rpc, outcome>>

vars == <<input, max_size, list_items, list_bins, i, b, alloc_flag, pc,
          result, call, prev_result,
          method, session, retries, number_of_tries, res, sent, rpc, outcome>>

----------------------------------------------------------------------------
\* Inputs

Counts == (0 - 1)..MaxCount

Caps == 0..MaxCap

BoundedSeq(S, n) == UNION {[1..k -> S] : k \in 0..n}

\* The literal cases of the specification: <<counts of the list, max_size>>.
Scenarios ==
    { << <<10, 9, 8, 7>>, 17 >>,
      << <<5, 5, 5, 5, 5>>, 10 >>,
      << <<20>>, 10 >>,
      << <<3, 1, 4, 1, 5>>, 5 >> }

Inputs == {<<s, c>> : s \in BoundedSeq(Counts, MaxLen), c \in Caps} \cup Scenarios

\* The objects of a caller list whose elements have the given counts.
Items(counts) == [k \in 1..Len(counts) |-> <<k, counts[k]>>]

----------------------------------------------------------------------------
\* Pure helpers

get_count(item) == item[2]

\* Variant of the position: before the elements of equal key (what
\* reversing an ascending sort gives).
InsertPos_before_equal(s, x) == Cardinality({j \in DOMAIN s : get_count(s[j]) > get_count(x)})

\* Position at which sorted(key=get_count, reverse=True) puts x among the
\* already sorted s: after every element whose key is >= the key of x
\* (the sort is stable, equal keys keep their original order).
InsertPos(s, x) == Cardinality({j \in DOMAIN s : get_count(s[j]) >= get_count(x)})

InsertDesc(s, x) ==
    SubSeq(s, 1, InsertPos(s, x)) \o <<x>> \o SubSeq(s, InsertPos(s, x) + 1, Len(s))

RECURSIVE sorted_reverse(_)
sorted_reverse(s) ==
    IF s = <<>> THEN <<>>
    ELSE InsertDesc(sorted_reverse(SubSeq(s, 1, Len(s) - 1)), s[Len(s)])

\* Bin.__init__: a fresh bin has no entries.
NewBin == <<>>

\* Variants of Bin.add_item: overwrite the entries; insert at the front.
add_item_overwrite(entries, item) == <<item>>

add_item_front(entries, item) == <<item>> \o entries

\* Bin.add_item
add_item(entries, item) == Append(entries, item)

\* Bin.sum
RECURSIVE Bin_sum(_)
Bin_sum(entries) ==
    IF entries = <<>> THEN 0
    ELSE Bin_sum(SubSeq(entries, 1, Len(entries) - 1)) + get_count(entries[Len(entries)])

\* Bin.show
show(entries) == entries

\* Variants of the test: the item's count left out; strict comparison.
Fits_without_item(entries, item) == Bin_sum(entries) <= max_size

Fits_strict(entries, item) == Bin_sum(entries) + get_count(item) < max_size

\* The test of the inner loop: bin.sum() + get_count(item) <= max_size
Fits(entries, item) == Bin_sum(entries) + get_count(item) <= max_size

\* Variants of the initial list of bins: no bin at all; a list of bins kept
\* from one call to the next.
InitialBins_none == <<>>

InitialBins_kept == IF call > 1 THEN list_bins ELSE <<NewBin>>

\* The list of bins a call starts with: one empty bin.
InitialBins == <<NewBin>>

\* `item` of the outer loop
item == list_items[i]

----------------------------------------------------------------------------
\* State machine

\* No request helper is running.
ReqIdle ==
    /\ method = "GET"
    /\ session = FALSE
    /\ retries = 0
    /\ number_of_tries = 0
    /\ res = <<>>
    /\ sent = <<>>
    /\ rpc = "idle"
    /\ outcome = <<>>

Init ==
    /\ ReqIdle
    /\ \E in \in Inputs : input = Items(in[1]) /\ max_size = in[2]
    /\ list_items = <<>>
    /\ list_bins = <<>>
    /\ i = 0
    /\ b = 0
    /\ alloc_flag = FALSE
    /\ pc = "call"
    /\ result = <<>>
    /\ call = 1
    /\ prev_result = <<>>

\* Variant of the first step: the caller's list is sorted in place
\* (list_items.sort(...) instead of sorted(list_items, ...)).
SortAndInit_in_place ==
    /\ pc = "call"
    /\ input' = sorted_reverse(input)
    /\ list_items' = sorted_reverse(input)
    /\ list_bins' = InitialBins
    /\ i' = 0
    /\ pc' = "for_item"
    /\ UNCHANGED <<max_size, b, alloc_flag, result, call, prev_result>>
    /\ UNCHANGED reqvars

\* Lines 219-221: sort a copy of the list, create the list of bins.
SortAndInit ==
    /\ pc = "call"
    /\ list_items' = sorted_reverse(input)
    /\ list_bins' = InitialBins
    /\ i' = 0
    /\ pc' = "for_item"
    /\ UNCHANGED <<input, max_size, b, alloc_flag, result, call, prev_result>>
    /\ UNCHANGED reqvars

\* Variant of the outer loop step: only the last bin is tried (next-fit).
NextItem_last_bin_only ==
    /\ pc = "for_item"
    /\ i < Len(list_items)
    /\ i' = i + 1
    /\ alloc_flag' = FALSE
    /\ b' = Len(list_bins)
    /\ pc' = "for_bin"
    /\ UNCHANGED <<input, max_size, list_items, list_bins, result, call, prev_result>>
    /\ UNCHANGED reqvars

\* Lines 223-225: the outer loop takes the next item.
NextItem ==
    /\ pc = "for_item"
    /\ i < Len(list_items)
    /\ i' = i + 1
    /\ alloc_flag' = FALSE
    /\ b' = 1
    /\ pc' = "for_bin"
    /\ UNCHANGED <<input, max_size, list_items, list_bins, result, call, prev_result>>
    /\ UNCHANGED reqvars

\* Lines 227-231: the current bin has room; add, set the flag, break.
BinFit ==
    /\ pc = "for_bin"
    /\ b <= Len(list_bins)
    /\ Fits(list_bins[b], item)
    /\ list_bins' = [list_bins EXCEPT ![b] = add_item(@, item)]
    /\ alloc_flag' = TRUE
    /\ pc' = "alloc_check"
    /\ UNCHANGED <<input, max_size, list_items, i, b, result, call, prev_result>>
    /\ UNCHANGED reqvars

\* Lines 227-228: the current bin has no room; go to the next bin.
BinSkip ==
    /\ pc = "for_bin"
    /\ b <= Len(list_bins)
    /\ ~Fits(list_bins[b], item)
    /\ b' = b + 1
    /\ UNCHANGED <<input, max_size, list_items, list_bins, i, alloc_flag, pc,
                   result, call, prev_result>>
    /\ UNCHANGED reqvars

\* Variant of the end of the inner loop: the scan starts over until the item
\* has been allocated.
BinsExhausted_rescan ==
    /\ pc = "for_bin"
    /\ b > Len(list_bins)
    /\ b' = 1
    /\ UNCHANGED <<input, max_size, list_items, list_bins, i, alloc_flag, pc,
                   result, call, prev_result>>
    /\ UNCHANGED reqvars

\* Line 227: the inner loop is exhausted.
BinsExhausted ==
    /\ pc = "for_bin"
    /\ b > Len(list_bins)
    /\ pc' = "alloc_check"
    /\ UNCHANGED <<input, max_size, list_items, list_bins, i, b, alloc_flag,
                   result, call, prev_result>>
    /\ UNCHANGED reqvars

\* Lines 235-238: not allocated; create a bin, add the item, append the bin.
AllocNew ==
    /\ pc = "alloc_check"
    /\ ~alloc_flag
    /\ list_bins' = Append(list_bins, add_item(NewBin, item))
    /\ pc' = "for_item"
    /\ UNCHANGED <<input, max_size, list_items, i, b, alloc_flag, result, call,
                   prev_result>>
    /\ UNCHANGED reqvars

\* Line 235: already allocated; nothing to do.
AllocDone ==
    /\ pc = "alloc_check"
    /\ alloc_flag
    /\ pc' = "for_item"
    /\ UNCHANGED <<input, max_size, list_items, list_bins, i, b, alloc_flag,
                   result, call, prev_result>>
    /\ UNCHANGED reqvars

\* Lines 241-245: the outer loop is exhausted; return the bins' entries.
Return ==
    /\ pc = "for_item"
    /\ i = Len(list_items)
    /\ result' = [k \in 1..Len(list_bins) |-> show(list_bins[k])]
    /\ pc' = "done"
    /\ UNCHANGED <<input, max_size, list_items, list_bins, i, b, alloc_flag,
                   call, prev_result>>
    /\ UNCHANGED reqvars

\* The caller calls first_fit again with the same arguments.
CallAgain ==
    /\ pc = "done"
    /\ call < MaxCalls
    /\ prev_result' = result
    /\ call' = call + 1
    /\ pc' = "call"
    /\ UNCHANGED <<input, max_size, list_items, list_bins, i, b, alloc_flag,
                   result>>
    /\ UNCHANGED reqvars

Next ==
    \/ SortAndInit
    \/ NextItem
    \/ BinFit
    \/ BinSkip
    \/ BinsExhausted
    \/ AllocNew
    \/ AllocDone
    \/ Return
    \/ CallAgain

Spec == Init /\ [][Next]_vars

\* The arguments drawn for the specification with fairness.
FairInputs ==
    {in \in Inputs : /\ Len(in[1]) <= MaxFairLen
                     /\ in[2] <= MaxFairCap
                     /\ \A k \in DOMAIN in[1] : in[1][k] <= MaxFairCount}

InitFair ==
    /\ ReqIdle
    /\ \E in \in FairInputs : input = Items(in[1]) /\ max_size = in[2]
    /\ list_items = <<>>
    /\ list_bins = <<>>
    /\ i = 0
    /\ b = 0
    /\ alloc_flag = FALSE
    /\ pc = "call"
    /\ result = <<>>
    /\ call = 1
    /\ prev_result = <<>>

\* first_fit is synchronous and has no suspension point: a call that can
\* take a step takes it.
FairSpec == InitFair /\ [][Next]_vars /\ WF_vars(Next)

----------------------------------------------------------------------------
\* Type correctness of the model's state.
TypeOK ==
    /\ pc \in {"call", "for_item", "for_bin", "alloc_check", "done"}
    /\ call \in 1..MaxCalls
    /\ i \in 0..Len(list_items)
    /\ alloc_flag \in BOOLEAN

----------------------------------------------------------------------------
\* Request helpers: delete_request, get_request, post_request, put_request
\*
\* What a send produces is the network's choice: a response with a status, or
\* an exception.  <<"response", k, s>> is the response with status s to the
\* send of try k, <<"exception", k>> the exception raised by the send of try
\* k, <<"future", k, s>> the future returned by session.post at try k (s is
\* the status its response will have).  No response is <<>> (res not bound).

Methods == {"DELETE", "GET", "POST", "PUT"}

Statuses == {200, 204, 500}

Response(k, s) == <<"response", k, s>>

Exception(k) == <<"exception", k>>

Future(k, s) == <<"future", k, s>>

\* requests.Response.ok: the status is not an error status.
ok(status) == status < 400

\* Variants of the success test: every helper tests the status for 200;
\* every helper tests res.ok.
Success_only_200(m, status) == status = 200

Success_any_ok(m, status) == ok(status)

\* The test that ends the loop: res.status_code == 200, and res.ok in
\* put_request.
Success(m, status) == IF m = "PUT" THEN ok(status) ELSE status = 200

\* Variant of the async flag: never set.
async_never == FALSE

\* async = True if session else False
async == session

\* Variant of the test of the except clause: compared with the number of tries.
IsLastTry_off_by_one == number_of_tries = retries + 1

\* The test of the except clause: number_of_tries == config.get_number_of_retries()
IsLastTry == number_of_tries = retries

\* APIError(e) and APIError(err_mess): the error and what it was built from.
APIError(from) == <<"APIError", from>>

\* What the statements after the loop raise: APIError with the message of
\* res; when res is not bound, the lookup of res fails in the try and again
\* in the except clause.
AfterLoop(r) == IF r = <<>> THEN <<"UnboundLocalError">> ELSE APIError(r)

FFIdle ==
    /\ input = <<>>
    /\ max_size = 0
    /\ list_items = <<>>
    /\ list_bins = <<>>
    /\ i = 0
    /\ b = 0
    /\ alloc_flag = FALSE
    /\ pc = "idle"
    /\ result = <<>>
    /\ call = 1
    /\ prev_result = <<>>

InitReq ==
    /\ FFIdle
    /\ method \in Methods
    /\ session \in BOOLEAN
    /\ session => method = "POST"
    /\ retries \in 0..MaxRetries
    /\ number_of_tries = 0
    /\ res = <<>>
    /\ sent = <<>>
    /\ rpc = "loop"
    /\ outcome = <<>>

\* The send is answered with a success status: return res.
SendReturns ==
    /\ rpc = "loop"
    /\ number_of_tries <= retries
    /\ ~async
    /\ \E s \in Statuses :
          /\ Success(method, s)
          /\ res' = Response(number_of_tries, s)
          /\ sent' = Append(sent, Response(number_of_tries, s))
          /\ outcome' = Response(number_of_tries, s)
    /\ rpc' = "returned"
    /\ UNCHANGED <<method, session, retries, number_of_tries>>
    /\ UNCHANGED ffvars

\* The send is answered with another status: next try.
SendFails ==
    /\ rpc = "loop"
    /\ number_of_tries <= retries
    /\ ~async
    /\ \E s \in Statuses :
          /\ ~Success(method, s)
          /\ res' = Response(number_of_tries, s)
          /\ sent' = Append(sent, Response(number_of_tries, s))
    /\ number_of_tries' = number_of_tries + 1
    /\ UNCHANGED <<method, session, retries, rpc, outcome>>
    /\ UNCHANGED ffvars

\* post_request with a session: return the future of the send.
SendAsync ==
    /\ rpc = "loop"
    /\ number_of_tries <= retries
    /\ async
    /\ \E s \in Statuses :
          /\ sent' = Append(sent, Future(number_of_tries, s))
          /\ outcome' = Future(number_of_tries, s)
    /\ rpc' = "returned"
    /\ UNCHANGED <<method, session, retries, number_of_tries, res>>
    /\ UNCHANGED ffvars

\* The send raises, not on the last try: the exception is dropped, next try.
ExceptRetry ==
    /\ rpc = "loop"
    /\ number_of_tries <= retries
    /\ ~IsLastTry
    /\ sent' = Append(sent, Exception(number_of_tries))
    /\ number_of_tries' = number_of_tries + 1
    /\ UNCHANGED <<method, session, retries, res, rpc, outcome>>
    /\ UNCHANGED ffvars

\* The send raises on the last try: raise APIError(e).
ExceptRaise ==
    /\ rpc = "loop"
    /\ number_of_tries <= retries
    /\ IsLastTry
    /\ sent' = Append(sent, Exception(number_of_tries))
    /\ outcome' = APIError(Exception(number_of_tries))
    /\ rpc' = "raised"
    /\ UNCHANGED <<method, session, retries, number_of_tries, res>>
    /\ UNCHANGED ffvars

\* The loop is exhausted: build the message from res and raise.
LoopExhausted ==
    /\ rpc = "loop"
    /\ number_of_tries > retries
    /\ outcome' = AfterLoop(res)
    /\ rpc' = "raised"
    /\ UNCHANGED <<method, session, retries, number_of_tries, res, sent>>
    /\ UNCHANGED ffvars

NextReq ==
    \/ SendReturns
    \/ SendFails
    \/ SendAsync
    \/ ExceptRetry
    \/ ExceptRaise
    \/ LoopExhausted

SpecReq == InitReq /\ [][NextReq]_vars

TypeOKReq ==
    /\ rpc \in {"idle", "loop", "returned", "raised"}
    /\ method \in Methods
    /\ number_of_tries \in 0..(retries + 1)

----------------------------------------------------------------------------
\* Vocabulary of the properties (independent of the helpers of the code)

Range(s) == {s[k] : k \in DOMAIN s}

\* The multiset of the elements of a sequence.
BagOf(s) == [x \in Range(s) |-> Cardinality({k \in DOMAIN s : s[k] = x})]

\* bin 1's items, then bin 2's, ...
RECURSIVE Flatten(_)
Flatten(bins) ==
    IF bins = <<>> THEN <<>>
    ELSE Flatten(SubSeq(bins, 1, Len(bins) - 1)) \o bins[Len(bins)]

\* Total size of a bin: the sum of get_count over its items.
RECURSIVE SizeUpTo(_, _)
SizeUpTo(s, n) == IF n = 0 THEN 0 ELSE SizeUpTo(s, n - 1) + s[n][2]

TotalSize(s) == SizeUpTo(s, Len(s))

\* The counts of the items of a list.
ListCounts(s) == [k \in DOMAIN s |-> s[k][2]]

\* The counts of the items of each bin.
CountsOf(bins) == [k \in DOMAIN bins |-> [j \in DOMAIN bins[k] |-> bins[k][j][2]]]

\* Whether x would pass the capacity check on a bin.
HasRoom(bin, x) == TotalSize(bin) + x[2] <= max_size

\* Positions of x in a sequence.
PosIn(s, x) == {k \in DOMAIN s : s[k] = x}

----------------------------------------------------------------------------
\* C1: the multiset of items across all returned bins equals the multiset of
\* input items: nothing is dropped, nothing is duplicated.
C1_Coverage ==
    pc = "done" => BagOf(Flatten(result)) = BagOf(input)

C1_Witness ==
    /\ pc = "done"
    /\ Len(input) >= 3
    /\ Len(result) >= 2
    /\ \E k \in DOMAIN result : Len(result[k]) >= 2

\* C2: in the result, every bin that holds more than one item has a total
\* size <= max_size.
C2_Capacity ==
    pc = "done" =>
        \A k \in DOMAIN result : Len(result[k]) > 1 => TotalSize(result[k]) <= max_size

C2_Witness ==
    /\ pc = "done"
    /\ \E k \in DOMAIN result : Len(result[k]) > 1 /\ TotalSize(result[k]) = max_size
    /\ \E k \in DOMAIN result : Len(result[k]) = 1 /\ TotalSize(result[k]) > max_size

\* C3 as stated: at every point, every bin to which an item has been added has
\* a running total <= max_size.
C3_Original ==
    \A k \in DOMAIN list_bins :
        list_bins[k] # <<>> => TotalSize(list_bins[k]) <= max_size

\* C3 amended: whenever an item is added to a bin that already exists (the
\* add behind the capacity check), that bin's running total is <= max_size
\* after the add.
C3_CheckedAdd ==
    [][\A k \in DOMAIN list_bins :
          (k \in DOMAIN list_bins' /\ Len(list_bins'[k]) > Len(list_bins[k]))
              => TotalSize(list_bins'[k]) <= max_size]_vars

C3_Witness ==
    /\ pc = "alloc_check"
    /\ alloc_flag
    /\ Len(list_bins[b]) >= 2
    /\ \E k \in DOMAIN list_bins : TotalSize(list_bins[k]) > max_size

\* C4: each item goes to the first bin, in creation order, that has room for
\* it; a bin is appended, holding the item, only when no existing bin has room.
C4_FirstFit ==
    [][(pc \in {"for_bin", "alloc_check"} /\ list_bins' # list_bins) =>
          \/ \E k \in DOMAIN list_bins :
                /\ list_bins' = [list_bins EXCEPT ![k] = Append(@, list_items[i])]
                /\ HasRoom(list_bins[k], list_items[i])
                /\ \A j \in 1..(k - 1) : ~HasRoom(list_bins[j], list_items[i])
          \/ /\ list_bins' = Append(list_bins, <<list_items[i]>>)
             /\ \A j \in DOMAIN list_bins : ~HasRoom(list_bins[j], list_items[i])]_vars

C4_Witness ==
    /\ pc = "alloc_check"
    /\ alloc_flag
    /\ b >= 2
    /\ b < Len(list_bins)

\* C5 as stated: a single item larger than max_size gives exactly one bin
\* holding that item.
C5_Original ==
    (pc = "done" /\ Len(input) = 1 /\ input[1][2] > max_size)
        => result = << <<input[1]>> >>

\* C5 amended: a single item larger than max_size gives two bins, the initial
\* empty bin followed by a bin holding only that item.
C5_OversizedAlone ==
    (pc = "done" /\ Len(input) = 1 /\ input[1][2] > max_size)
        => result = << <<>>, <<input[1]>> >>

C5_Witness ==
    /\ pc = "done"
    /\ ListCounts(input) = <<20>>
    /\ max_size = 10
    /\ Len(result) = 2

\* C6: an empty input gives exactly one bin, and that bin is empty.
C6_EmptyInput ==
    (pc = "done" /\ input = <<>>) => result = << <<>> >>

C6_Witness ==
    /\ pc = "done"
    /\ input = <<>>
    /\ max_size > 0

\* C7: two items of equal size appear in the flattened result in the order
\* they have in the sorted sequence.
C7_OrderStability ==
    pc = "done" =>
        \A p, q \in DOMAIN list_items :
            (p < q /\ list_items[p][2] = list_items[q][2]) =>
                \A m \in PosIn(Flatten(result), list_items[p]),
                   n \in PosIn(Flatten(result), list_items[q]) : m < n

C7_Witness ==
    /\ pc = "done"
    /\ \E p, q \in DOMAIN list_items :
          /\ p < q
          /\ list_items[p][2] = list_items[q][2]
          /\ \E k \in DOMAIN result :
                /\ list_items[p] \in Range(result[k])
                /\ list_items[q] \notin Range(result[k])
          /\ PosIn(Flatten(result), list_items[p]) # {}
          /\ PosIn(Flatten(result), list_items[q]) # {}

\* C8: a second call with the same list, max_size and size function returns
\* what the first call returned: same bins, same contents, same order.
C8_Deterministic ==
    (pc = "done" /\ call > 1) => result = prev_result

C8_Witness ==
    /\ pc = "done"
    /\ call > 1
    /\ Len(result) >= 2
    /\ Len(input) >= 3

\* C9: [10, 9, 8, 7] with max_size 17 gives the bins [10, 7] and [9, 8].
C9_Regression ==
    (pc = "done" /\ ListCounts(input) = <<10, 9, 8, 7>> /\ max_size = 17)
        => CountsOf(result) = << <<10, 7>>, <<9, 8>> >>

C9_Witness ==
    /\ pc = "done"
    /\ ListCounts(input) = <<10, 9, 8, 7>>
    /\ max_size = 17
    /\ Len(result) = 2

\* Quotient rounded up.
CeilDiv(n, k) == (n + k - 1) \div k

\* C10: n >= 1 items of one size s, 0 < s <= max_size, give ceil(n / k) bins
\* with k = floor(max_size / s); every bin but the last holds k items, the
\* last holds the rest, and no bin is empty.
C10_EqualSizes ==
    (/\ pc = "done"
     /\ Len(input) >= 1
     /\ \A k \in DOMAIN input : input[k][2] = input[1][2]
     /\ 0 < input[1][2]
     /\ input[1][2] <= max_size)
        => LET n == Len(input)
               k == max_size \div input[1][2]
           IN  /\ Len(result) = CeilDiv(n, k)
               /\ \A j \in 1..(Len(result) - 1) : Len(result[j]) = k
               /\ Len(result[Len(result)]) = n - k * (Len(result) - 1)
               /\ \A j \in DOMAIN result : result[j] # <<>>

C10_Witness ==
    /\ pc = "done"
    /\ ListCounts(input) = <<5, 5, 5, 5, 5>>
    /\ max_size = 10
    /\ CountsOf(result) = << <<5, 5>>, <<5, 5>>, <<5>> >>

----------------------------------------------------------------------------
\* The list [3, 1, 4, 1, 5] packed with max_size 5, at the head of the outer
\* loop after four items have been placed.
C11_Case ==
    /\ ListCounts(input) = <<3, 1, 4, 1, 5>>
    /\ max_size = 5
    /\ pc = "for_item"
    /\ i = 4

\* C11 as stated: the items are processed in the order [5, 4, 3, 1, 1] and
\* after four placements the bins are [5], [4], [3, 1].
C11_Original ==
    C11_Case =>
        /\ ListCounts(list_items) = <<5, 4, 3, 1, 1>>
        /\ CountsOf(list_bins) = << <<5>>, <<4>>, <<3, 1>> >>

\* C11 amended: the items are processed in the order [5, 4, 3, 1, 1] and
\* after four placements the bins are [5], [4, 1], [3]: the first item of
\* size 1 goes to the second bin (4 + 1 <= 5).
C11_Trace ==
    C11_Case =>
        /\ ListCounts(list_items) = <<5, 4, 3, 1, 1>>
        /\ CountsOf(list_bins) = << <<5>>, <<4, 1>>, <<3>> >>
        /\ list_bins[2][2] = <<2, 1>>

C11_Witness ==
    /\ C11_Case
    /\ Len(list_bins) = 3
    /\ alloc_flag

\* C12: first_fit leaves the caller's list unchanged: no step of a call
\* changes its elements or their order.
C12_InputUnchanged ==
    [][input' = input]_vars

C12_Witness ==
    /\ pc = "done"
    /\ Len(input) >= 3
    /\ list_items # input
    /\ result # <<input>>

----------------------------------------------------------------------------
\* The items placed so far, in the order of the sorted list.
Placed == SubSeq(list_items, 1, IF pc \in {"for_bin"} \/ (pc = "alloc_check" /\ ~alloc_flag)
                                  THEN i - 1 ELSE i)

\* C14: every call terminates: it reaches its return with every item of the
\* sorted list placed exactly once, and no step of it can fail.
C14_Terminates ==
    (pc = "call") ~>
        (/\ pc = "done"
         /\ i = Len(list_items)
         /\ Len(list_items) = Len(input)
         /\ \A k \in DOMAIN list_items :
                Cardinality(PosIn(Flatten(result), list_items[k])) = 1)

C14_Witness ==
    /\ pc = "done"
    /\ call = MaxCalls
    /\ Len(input) >= 2
    /\ Len(result) >= 3

\* C15: items are placed in non-increasing order of size, items of equal size
\* in their order in the caller's list: the sorted list is ordered that way
\* and the items in the bins are always a prefix of it.
C15_PlacementOrder ==
    pc # "call" =>
        /\ \A p, q \in DOMAIN list_items :
              p < q =>
                 \/ list_items[p][2] > list_items[q][2]
                 \/ /\ list_items[p][2] = list_items[q][2]
                    /\ list_items[p][1] < list_items[q][1]
        /\ BagOf(list_items) = BagOf(input)
        /\ BagOf(Flatten(list_bins)) = BagOf(Placed)

C15_Witness ==
    /\ pc = "alloc_check"
    /\ alloc_flag
    /\ i >= 3
    /\ list_items[i][2] = list_items[i - 1][2]
    /\ list_items[i][1] > list_items[i - 1][1] + 1
    /\ list_items[1][2] > list_items[i][2]

\* C18: in the result only the first bin can be empty, and it is empty exactly
\* when no input item has size <= max_size; every later bin holds at least
\* one item, so there are at most n + 1 bins for n items.
C18_EmptyBins ==
    pc = "done" =>
        /\ Len(result) >= 1
        /\ (result[1] = <<>>) <=> (\A k \in DOMAIN input : input[k][2] > max_size)
        /\ \A k \in 2..Len(result) : result[k] # <<>>
        /\ Len(result) <= Len(input) + 1

C18_Witness ==
    /\ pc = "done"
    /\ result[1] = <<>>
    /\ Len(result) = Len(input) + 1
    /\ Len(input) >= 2

\* C19: with non-negative sizes, no item of a later bin of the result would
\* fit in an earlier bin of the result.
C19_NoRoomEarlier ==
    (pc = "done" /\ \A k \in DOMAIN input : input[k][2] >= 0) =>
        \A m, n \in DOMAIN result :
            m < n => \A k \in DOMAIN result[n] : ~HasRoom(result[m], result[n][k])

C19_Witness ==
    /\ pc = "done"
    /\ \A k \in DOMAIN input : input[k][2] >= 0
    /\ Len(result) >= 3
    /\ \E k \in DOMAIN result : Len(result[k]) >= 2
    /\ result[1] # <<>>

----------------------------------------------------------------------------
\* Vocabulary of the properties of the request helpers

\* x is a response that the helper m counts as a success.
IsSuccessOf(m, x) ==
    /\ x[1] = "response"
    /\ IF m = "PUT" THEN x[3] < 400 ELSE x[3] = 200

LastSent == sent[Len(sent)]

\* C13: without a session, a helper sends at most N + 1 times and stops at the
\* first send answered with a success, returning that response.
C13_BoundedRetries ==
    (rpc # "idle" /\ ~session) =>
        /\ Len(sent) <= retries + 1
        /\ \A k \in DOMAIN sent :
              IsSuccessOf(method, sent[k]) =>
                  /\ k = Len(sent)
                  /\ rpc = "returned"
                  /\ outcome = sent[k]

C13_Witness ==
    /\ rpc = "returned"
    /\ ~session
    /\ Len(sent) >= 2
    /\ Len(sent) <= retries
    /\ IsSuccessOf(method, LastSent)

\* C16: when every send raises, the helper raises APIError wrapping the
\* exception of the last try after exactly N + 1 sends; an exception raised
\* before the last try is dropped and the request is sent again.
C16_AllRaise ==
    (rpc # "idle" /\ sent # <<>>) =>
        /\ (\A k \in DOMAIN sent : sent[k][1] = "exception") =>
              IF Len(sent) = retries + 1
              THEN /\ rpc = "raised"
                   /\ outcome = <<"APIError", <<"exception", retries>>>>
                   /\ LastSent = <<"exception", retries>>
              ELSE /\ Len(sent) <= retries
                   /\ rpc = "loop"
                   /\ outcome = <<>>
        /\ \A k \in DOMAIN sent :
              (sent[k][1] = "exception" /\ k <= retries) =>
                  \/ Len(sent) > k
                  \/ rpc = "loop" /\ number_of_tries = k

C16_Witness ==
    /\ rpc = "raised"
    /\ retries >= 2
    /\ Len(sent) = retries + 1
    /\ \A k \in DOMAIN sent : sent[k][1] = "exception"

\* C17: a call of get_request, delete_request or put_request ends either by
\* returning a success response or by raising APIError; when the last send was
\* answered with a response that is not a success, APIError is built from
\* that response.
C17_Outcomes ==
    (rpc \in {"returned", "raised"} /\ method \in {"GET", "DELETE", "PUT"}) =>
        /\ \/ rpc = "returned" /\ IsSuccessOf(method, outcome)
           \/ rpc = "raised" /\ outcome[1] = "APIError"
        /\ (rpc = "raised" /\ LastSent[1] = "response") =>
              /\ outcome = <<"APIError", LastSent>>
              /\ LastSent[2] = retries
              /\ ~IsSuccessOf(method, LastSent)

C17_Witness ==
    /\ rpc = "raised"
    /\ method = "PUT"
    /\ Len(sent) >= 3
    /\ sent[1][1] = "response"
    /\ sent[2][1] = "exception"
    /\ LastSent[1] = "response"

\* C20: post_request with a session returns the future of the first send that
\* does not raise, whatever its status: a status other than 200 is neither
\* retried nor turned into APIError, and only a send that raises is retried.
C20_AsyncPost ==
    (rpc # "idle" /\ method = "POST" /\ session) =>
        /\ \A k \in DOMAIN sent :
              \/ sent[k][1] = "exception"
              \/ /\ sent[k][1] = "future"
                 /\ k = Len(sent)
                 /\ rpc = "returned"
                 /\ outcome = sent[k]
        /\ rpc = "returned" => (sent # <<>> /\ outcome = LastSent /\ outcome[1] = "future")
        /\ rpc = "raised" =>
              /\ Len(sent) = retries + 1
              /\ outcome = <<"APIError", <<"exception", retries>>>>

C20_Witness ==
    /\ rpc = "returned"
    /\ method = "POST"
    /\ session
    /\ Len(sent) >= 2
    /\ Len(sent) <= retries
    /\ outcome[1] = "future"
    /\ outcome[3] = 500

====
